---- MODULE Spec2Model ----
(***************************************************************************)
(* Model of src/launch.py, the OpenShot launcher: the module-level code    *)
(* (import of classes.info/exceptions, init_sentry_tracing, the global     *)
(* app holder) followed by main(), one action per statement group.         *)
(*                                                                         *)
(* Python values are encoded as follows.  An optional value (None or a     *)
(* value v) is the sequence << >> or <<v>>.  args.py_path is None or a     *)
(* non-empty list (argparse action='append'); None is << >>.  The exit     *)
(* code is the status the interpreter ends with: the argument of sys.exit  *)
(* (None counts as 0), 2 for an argparse usage error, 1 for an uncaught    *)
(* exception.                                                              *)
(***************************************************************************)
EXTENDS Integers, Sequences, FiniteSets, TLC

VARIABLES
    pc,               \* position in launch.py
    args,             \* the argparse namespace (line 127)
    extra_args,       \* tokens parse_known_args did not recognise (line 127)
    sys_path,         \* sys.path
    info,             \* the mutable attributes of classes.info
    environ,          \* QT_LOGGING_RULES as os.getenv reads it (os.environ)
    penv,             \* QT_LOGGING_RULES in the process environment (os.putenv)
    tracing,          \* how often exceptions.init_sentry_tracing() was called
    app,              \* the global holder for the QApplication instance
    argv,             \* the argument vector built for OpenShotApp
    ctor,             \* what the OpenShotApp constructor calls received
    appcalls,         \* methods called on the application object, in order
    i,                \* index of the --path entry the loop is at
    out,              \* lines printed
    uncaught,         \* the exception that escaped main(), if any
    exitCode          \* the process exit status, once it ended

vars == <<pc, args, extra_args, sys_path, info, environ, penv, tracing, app,
          argv, ctor, appcalls, i, out, uncaught, exitCode>>

-----------------------------------------------------------------------------
(* Bounds of the model *)

\* at most this many --path options on the command line
MaxPaths == 2
\* the event loop returns a code in -1 .. MaxLoopCode
MaxLoopCode == 2

-----------------------------------------------------------------------------
(* The environment of the launcher *)

None == << >>
Some(v) == <<v>>

\* classes.info as imported: its defaults before main() touches them
info_defaults ==
    [LOG_LEVEL_FILE |-> "INFO", LOG_LEVEL_CONSOLE |-> "INFO",
     MODEL_TEST |-> FALSE, WEB_BACKEND |-> "auto", CMDLINE_LANGUAGE |-> None]

\* info.SUPPORTED_LANGUAGES
SUPPORTED_LANGUAGES == {"en_US", "fr"}

\* get_all_languages(): (code, name) pairs
get_all_languages == << <<"en_US", "English">>, <<"fr", "French">> >>

\* sys.path when the interpreter starts
SysPath0 == << "/usr/lib/python3" >>

\* openshot_qt.OPENSHOT_PATH, appended when "classes" is not importable
OPENSHOT_PATH == "/opt/openshot_qt"

\* --path values a user may give: "A" and "B" are directories of the working
\* directory, "L" is a symbolic link to "A", "M" names no existing location;
\* resolving "T" raises TypeError, resolving "E" raises another error
\* (OSError, e.g. FileNotFoundError from os.getcwd() inside os.path.realpath)
PathTokens == {"A", "B", "L", "M", "T", "E"}

\* how os.path.realpath(p) ends: it returns, or raises the named exception
resolves(p) == IF p = "T" THEN "TypeError"
               ELSE IF p = "E" THEN "OSError" ELSE "ok"

\* os.path.realpath: the absolute form of a path, symbolic links resolved
realpath(p) == IF p = "L" THEN "/cwd/A" ELSE "/cwd/" \o p

\* os.path.exists
exists(rp) == rp \in {"/cwd/A", "/cwd/B"}

\* values given to -b/--web-backend; the last is not one of the choices
WebTokens == {"auto", "webkit", "webengine", "WebKit"}

\* choices=['auto', 'webkit', 'webengine']
web_backend_choices == {"auto", "webkit", "webengine"}

\* str.lower on the tokens above
lower(s) == IF s = "WebKit" THEN "webkit" ELSE s

\* values given to -l/--lang: absent, the empty string, supported, unsupported
LangTokens == {None, Some(""), Some("fr"), Some("xx")}

\* (unrecognised tokens, trailing remainder) of a command line
ArgTails == { <<<< >>, << >>>>,
              <<<<"-style", "fusion">>, <<"a.osp", "b.osp">>>> }

\* sys.argv[0]
Argv0 == "launch.py"

\* Python truthiness of an optional string: None and '' are false
truthy(o) == o # None /\ o[1] # ""

RECURSIVE SeqsUpTo(_, _)
SeqsUpTo(S, n) ==
    IF n = 0 THEN { << >> }
    ELSE LET shorter == SeqsUpTo(S, n - 1)
         IN  shorter \cup { Append(s, x) : s \in shorter, x \in S }

\* the command lines the model runs the launcher on
CmdLines ==
    [help : BOOLEAN, version : BOOLEAN, debug : BOOLEAN, debug_file : BOOLEAN,
     debug_console : BOOLEAN, list_languages : BOOLEAN,
     py_path : SeqsUpTo(PathTokens, MaxPaths), modeltest : BOOLEAN,
     web_backend : WebTokens, lang : LangTokens, tail : ArgTails]

NoArgs == [parsed |-> FALSE]

-----------------------------------------------------------------------------
(* sys.exit and the end of the process *)

\* sys.exit(arg): None is status 0, an integer is the status itself
ExitStatus(arg) == IF arg = None THEN 0 ELSE arg[1]

\* an exception nothing catches leaves main(): traceback, exit status 1
Raise(exc) ==
    /\ uncaught' = Some(exc)
    /\ exitCode' = Some(1)
    /\ pc' = "crash"

Terminal == {"exit_usage", "exit_help", "exit_version", "exit_list",
             "exit_badlang", "exit_loop", "crash"}

-----------------------------------------------------------------------------
Init ==
    /\ pc = "import"
    /\ args = NoArgs
    /\ extra_args = << >>
    /\ sys_path = SysPath0
    /\ info = info_defaults
    /\ environ \in {None, Some("user.rules")}
    /\ penv = environ
    /\ tracing = 0
    /\ app = "unbound"
    /\ argv = << >>
    /\ ctor = << >>
    /\ appcalls = << >>
    /\ i = 1
    /\ out = << >>
    /\ uncaught = None
    /\ exitCode = None

-----------------------------------------------------------------------------
(* Module level, lines 72-83 *)

\* lines 72-77: import classes.info and classes.exceptions; when that fails,
\* append the installed package's path to sys.path and import again
ImportClasses ==
    /\ pc = "import"
    /\ \E importable \in BOOLEAN :
          sys_path' = IF importable THEN sys_path
                      ELSE Append(sys_path, OPENSHOT_PATH)
    /\ pc' = "tracing"
    /\ UNCHANGED <<args, extra_args, info, environ, penv, tracing, app, argv,
                   ctor, appcalls, i, out, uncaught, exitCode>>

\* InitSentryTracing with the call of line 80 left out
InitSentryTracing_Skipped ==
    /\ pc = "tracing"
    /\ pc' = "holder"
    /\ UNCHANGED <<args, extra_args, sys_path, info, environ, penv, tracing,
                   app, argv, ctor, appcalls, i, out, uncaught, exitCode>>

\* line 80: exceptions.init_sentry_tracing()
InitSentryTracing ==
    /\ pc = "tracing"
    /\ tracing' = tracing + 1
    /\ pc' = "holder"
    /\ UNCHANGED <<args, extra_args, sys_path, info, environ, penv, app, argv,
                   ctor, appcalls, i, out, uncaught, exitCode>>

\* line 83: app = None; lines 201-202 then call main()
DefineApp ==
    /\ pc = "holder"
    /\ app' = "None"
    /\ pc' = "parse"
    /\ UNCHANGED <<args, extra_args, sys_path, info, environ, penv, tracing,
                   argv, ctor, appcalls, i, out, uncaught, exitCode>>

-----------------------------------------------------------------------------
(* main(), lines 86-198 *)

\* the namespace parse_known_args returns for a command line
Namespace(cmd) ==
    [parsed |-> TRUE, version |-> cmd.version, debug |-> cmd.debug,
     debug_file |-> cmd.debug_file, debug_console |-> cmd.debug_console,
     list_languages |-> cmd.list_languages, py_path |-> cmd.py_path,
     modeltest |-> cmd.modeltest, web_backend |-> cmd.web_backend,
     lang |-> cmd.lang, remain |-> cmd.tail[2]]

\* ParseArgs without the choices of --web-backend (line 112): any value is
\* accepted and stored
ParseArgs_AnyBackend ==
    /\ pc = "parse"
    /\ \E cmd \in CmdLines :
          IF cmd.help
          THEN /\ pc' = "exit_help"
               /\ out' = Append(out, <<"help">>)
               /\ exitCode' = Some(0)
               /\ UNCHANGED <<args, extra_args>>
          ELSE /\ pc' = "version"
               /\ args' = Namespace(cmd)
               /\ extra_args' = cmd.tail[1]
               /\ UNCHANGED <<out, exitCode>>
    /\ UNCHANGED <<sys_path, info, environ, penv, tracing, app, argv, ctor,
                   appcalls, i, uncaught>>

\* lines 92-127: build the parser and parse the command line.  A value
\* outside the choices of --web-backend is a usage error (argparse prints
\* the usage and exits with status 2); -h prints the help and exits with 0.
ParseArgs ==
    /\ pc = "parse"
    /\ \E cmd \in CmdLines :
          IF cmd.web_backend \notin web_backend_choices
          THEN /\ pc' = "exit_usage"
               /\ out' = Append(out, <<"usage">>)
               /\ exitCode' = Some(2)
               /\ UNCHANGED <<args, extra_args>>
          ELSE IF cmd.help
          THEN /\ pc' = "exit_help"
               /\ out' = Append(out, <<"help">>)
               /\ exitCode' = Some(0)
               /\ UNCHANGED <<args, extra_args>>
          ELSE /\ pc' = "version"
               /\ args' = Namespace(cmd)
               /\ extra_args' = cmd.tail[1]
               /\ UNCHANGED <<out, exitCode>>
    /\ UNCHANGED <<sys_path, info, environ, penv, tracing, app, argv, ctor,
                   appcalls, i, uncaught>>

\* ShowVersion without the sys.exit() of line 132: the version is printed
\* and main() goes on
ShowVersion_NoExit ==
    /\ pc = "version"
    /\ out' = IF args.version THEN Append(out, <<"version">>) ELSE out
    /\ pc' = "loglevel"
    /\ UNCHANGED <<args, extra_args, sys_path, info, environ, penv, tracing,
                   app, argv, ctor, appcalls, i, uncaught, exitCode>>

\* lines 129-132: display version and exit
ShowVersion ==
    /\ pc = "version"
    /\ IF args.version
       THEN /\ out' = Append(out, <<"version">>)
            /\ exitCode' = Some(ExitStatus(None))
            /\ pc' = "exit_version"
       ELSE /\ pc' = "loglevel"
            /\ UNCHANGED <<out, exitCode>>
    /\ UNCHANGED <<args, extra_args, sys_path, info, environ, penv, tracing,
                   app, argv, ctor, appcalls, i, uncaught>>

\* SetLogLevels with the language validation of lines 166-171 hoisted in
\* front of it: an unsupported --lang exits before any configuration
SetLogLevels_AfterValidation ==
    /\ pc = "loglevel"
    /\ IF truthy(args.lang) /\ args.lang[1] \notin SUPPORTED_LANGUAGES
       THEN /\ out' = Append(out, <<"Unsupported language", args.lang[1]>>)
            /\ exitCode' = Some(ExitStatus(Some(-1)))
            /\ pc' = "exit_badlang"
            /\ UNCHANGED info
       ELSE /\ info' = [info EXCEPT
                  !.LOG_LEVEL_FILE =
                      IF args.debug \/ args.debug_file THEN "DEBUG" ELSE @,
                  !.LOG_LEVEL_CONSOLE =
                      IF args.debug \/ args.debug_console THEN "DEBUG" ELSE @]
            /\ pc' = "list"
            /\ UNCHANGED <<out, exitCode>>
    /\ UNCHANGED <<args, extra_args, sys_path, environ, penv, tracing, app,
                   argv, ctor, appcalls, i, uncaught>>

\* SetLogLevels with the two stream flags crossed: --debug-file raises the
\* console level and --debug-console the file level
SetLogLevels_Crossed ==
    /\ pc = "loglevel"
    /\ info' = [info EXCEPT
                  !.LOG_LEVEL_FILE =
                      IF args.debug \/ args.debug_console THEN "DEBUG" ELSE @,
                  !.LOG_LEVEL_CONSOLE =
                      IF args.debug \/ args.debug_file THEN "DEBUG" ELSE @]
    /\ pc' = "list"
    /\ UNCHANGED <<args, extra_args, sys_path, environ, penv, tracing, app,
                   argv, ctor, appcalls, i, out, uncaught, exitCode>>

\* lines 134-138: set up debugging log level to requested streams
SetLogLevels ==
    /\ pc = "loglevel"
    /\ info' = [info EXCEPT
                  !.LOG_LEVEL_FILE =
                      IF args.debug \/ args.debug_file THEN "DEBUG" ELSE @,
                  !.LOG_LEVEL_CONSOLE =
                      IF args.debug \/ args.debug_console THEN "DEBUG" ELSE @]
    /\ pc' = "list"
    /\ UNCHANGED <<args, extra_args, sys_path, environ, penv, tracing, app,
                   argv, ctor, appcalls, i, out, uncaught, exitCode>>

\* the lines lines 142-144 print
LanguageLines ==
    <<<<"Supported Languages:">>>> \o
    [k \in 1..Len(get_all_languages) |->
        <<"language", get_all_languages[k][1], get_all_languages[k][2]>>]

\* ListLanguages without the sys.exit() of line 145: the list is printed and
\* main() goes on
ListLanguages_NoExit ==
    /\ pc = "list"
    /\ out' = IF args.list_languages THEN out \o LanguageLines ELSE out
    /\ pc' = "paths"
    /\ UNCHANGED <<args, extra_args, sys_path, info, environ, penv, tracing,
                   app, argv, ctor, appcalls, i, uncaught, exitCode>>

\* lines 140-145: list the languages and exit
ListLanguages ==
    /\ pc = "list"
    /\ IF args.list_languages
       THEN /\ out' = out \o LanguageLines
            /\ exitCode' = Some(ExitStatus(None))
            /\ pc' = "exit_list"
       ELSE /\ pc' = "paths"
            /\ UNCHANGED <<out, exitCode>>
    /\ UNCHANGED <<args, extra_args, sys_path, info, environ, penv, tracing,
                   app, argv, ctor, appcalls, i, uncaught>>

\* list.append(x) in the place of list.insert(0, x)
insert_at_end(l, x) == Append(l, x)

\* list.insert(0, x)
insert0(l, x) == <<x>> \o l

\* AddPath where a missing location is an error that ends main()
AddPath_AbortsOnMissing ==
    /\ pc = "paths"
    /\ i <= Len(args.py_path)
    /\ LET p == args.py_path[i]
       IN  IF resolves(p) = "TypeError"
           THEN /\ out' = Append(out, <<"Bad path", p>>)
                /\ i' = i + 1
                /\ UNCHANGED <<sys_path, pc, uncaught, exitCode>>
           ELSE IF resolves(p) # "ok"
           THEN /\ Raise(resolves(p))
                /\ UNCHANGED <<sys_path, out, i>>
           ELSE IF exists(realpath(p))
           THEN /\ sys_path' = insert0(sys_path, realpath(p))
                /\ out' = Append(out, <<"Added", realpath(p)>>)
                /\ i' = i + 1
                /\ UNCHANGED <<pc, uncaught, exitCode>>
           ELSE /\ Raise("FileNotFoundError")
                /\ UNCHANGED <<sys_path, out, i>>
    /\ UNCHANGED <<args, extra_args, info, environ, penv, tracing, app,
                   argv, ctor, appcalls>>

\* lines 147-157, one iteration of the loop over args.py_path.  The try
\* block catches TypeError only (line 155): the entry is reported and the
\* loop continues; any other exception of the resolution leaves main().
AddPath ==
    /\ pc = "paths"
    /\ i <= Len(args.py_path)
    /\ LET p == args.py_path[i]
       IN  IF resolves(p) = "TypeError"
           THEN /\ out' = Append(out, <<"Bad path", p>>)
                /\ i' = i + 1
                /\ UNCHANGED <<sys_path, pc, uncaught, exitCode>>
           ELSE IF resolves(p) # "ok"
           THEN /\ Raise(resolves(p))
                /\ UNCHANGED <<sys_path, out, i>>
           ELSE IF exists(realpath(p))
           THEN /\ sys_path' = insert0(sys_path, realpath(p))
                /\ out' = Append(out, <<"Added", realpath(p)>>)
                /\ i' = i + 1
                /\ UNCHANGED <<pc, uncaught, exitCode>>
           ELSE /\ out' = Append(out, <<"does not exist", realpath(p)>>)
                /\ i' = i + 1
                /\ UNCHANGED <<sys_path, pc, uncaught, exitCode>>
    /\ UNCHANGED <<args, extra_args, info, environ, penv, tracing, app,
                   argv, ctor, appcalls>>

\* lines 147-148: args.py_path is None, or the loop is exhausted
PathsDone ==
    /\ pc = "paths"
    /\ i > Len(args.py_path)
    /\ pc' = "modeltest"
    /\ UNCHANGED <<args, extra_args, sys_path, info, environ, penv, tracing,
                   app, argv, ctor, appcalls, i, out, uncaught, exitCode>>

\* ModelTest without the test of line 162: the default logging rules are
\* always put in the environment
ModelTest_Overwrites ==
    /\ pc = "modeltest"
    /\ IF args.modeltest
       THEN /\ info' = [info EXCEPT !.MODEL_TEST = TRUE]
            /\ penv' = Some("qt.modeltest.debug=true")
       ELSE UNCHANGED <<info, penv>>
    /\ pc' = "backend"
    /\ UNCHANGED <<args, extra_args, sys_path, environ, tracing, app, argv,
                   ctor, appcalls, i, out, uncaught, exitCode>>

\* lines 159-163: --test-models
ModelTest ==
    /\ pc = "modeltest"
    /\ IF args.modeltest
       THEN /\ info' = [info EXCEPT !.MODEL_TEST = TRUE]
            /\ penv' = IF environ = None
                       THEN Some("qt.modeltest.debug=true") ELSE penv
       ELSE UNCHANGED <<info, penv>>
    /\ pc' = "backend"
    /\ UNCHANGED <<args, extra_args, sys_path, environ, tracing, app, argv,
                   ctor, appcalls, i, out, uncaught, exitCode>>

\* WebBackend settling 'auto' at start-up by whichever backend happens to be
\* importable, instead of storing the option as given
WebBackend_ResolvesAuto ==
    /\ pc = "backend"
    /\ \E found \in {"webkit", "webengine"} :
          info' = [info EXCEPT !.WEB_BACKEND =
                      IF args.web_backend = "auto" THEN found
                      ELSE lower(args.web_backend)]
    /\ pc' = "lang"
    /\ UNCHANGED <<args, extra_args, sys_path, environ, penv, tracing, app,
                   argv, ctor, appcalls, i, out, uncaught, exitCode>>

\* lines 164-165: the web backend
WebBackend ==
    /\ pc = "backend"
    /\ info' = IF args.web_backend # ""
               THEN [info EXCEPT !.WEB_BACKEND = lower(args.web_backend)]
               ELSE info
    /\ pc' = "lang"
    /\ UNCHANGED <<args, extra_args, sys_path, environ, penv, tracing, app,
                   argv, ctor, appcalls, i, out, uncaught, exitCode>>

\* Language storing the override before it is validated
Language_StoresFirst ==
    /\ pc = "lang"
    /\ IF truthy(args.lang)
       THEN /\ info' = [info EXCEPT !.CMDLINE_LANGUAGE = args.lang]
            /\ IF args.lang[1] \in SUPPORTED_LANGUAGES
               THEN /\ pc' = "argv"
                    /\ UNCHANGED <<out, exitCode>>
               ELSE /\ out' = Append(out,
                                     <<"Unsupported language", args.lang[1]>>)
                    /\ exitCode' = Some(ExitStatus(Some(-1)))
                    /\ pc' = "exit_badlang"
       ELSE /\ pc' = "argv"
            /\ UNCHANGED <<info, out, exitCode>>
    /\ UNCHANGED <<args, extra_args, sys_path, environ, penv, tracing, app,
                   argv, ctor, appcalls, i, uncaught>>

\* lines 166-171: the language override
Language ==
    /\ pc = "lang"
    /\ IF truthy(args.lang)
       THEN IF args.lang[1] \in SUPPORTED_LANGUAGES
            THEN /\ info' = [info EXCEPT !.CMDLINE_LANGUAGE = args.lang]
                 /\ pc' = "argv"
                 /\ UNCHANGED <<out, exitCode>>
            ELSE /\ out' = Append(out, <<"Unsupported language", args.lang[1]>>)
                 /\ exitCode' = Some(ExitStatus(Some(-1)))
                 /\ pc' = "exit_badlang"
                 /\ UNCHANGED info
       ELSE /\ pc' = "argv"
            /\ UNCHANGED <<info, out, exitCode>>
    /\ UNCHANGED <<args, extra_args, sys_path, environ, penv, tracing, app,
                   argv, ctor, appcalls, i, uncaught>>

\* BuildArgv with the two extend calls of lines 180-181 in the other order
BuildArgv_RemainFirst ==
    /\ pc = "argv"
    /\ out' = Append(out, <<"Loaded modules from">>)
    /\ argv' = (<<Argv0>> \o args.remain) \o extra_args
    /\ pc' = "construct"
    /\ UNCHANGED <<args, extra_args, sys_path, info, environ, penv, tracing,
                   app, ctor, appcalls, i, uncaught, exitCode>>

\* lines 173-181: print the module path, build the constructor's argv
BuildArgv ==
    /\ pc = "argv"
    /\ out' = Append(out, <<"Loaded modules from">>)
    /\ argv' = (<<Argv0>> \o extra_args) \o args.remain
    /\ pc' = "construct"
    /\ UNCHANGED <<args, extra_args, sys_path, info, environ, penv, tracing,
                   app, ctor, appcalls, i, uncaught, exitCode>>

\* lines 182-183: app = OpenShotApp(argv).  The constructor returns the
\* application, or raises an Exception; app is assigned only when it returns.
ConstructApp ==
    /\ pc = "construct"
    /\ ctor' = Append(ctor, argv)
    /\ \E raises \in BOOLEAN :
          IF raises
          THEN /\ pc' = "except"
               /\ UNCHANGED app
          ELSE /\ pc' = "identity"
               /\ app' = "OpenShotApp"
    /\ UNCHANGED <<args, extra_args, sys_path, info, environ, penv, tracing,
                   argv, appcalls, i, out, uncaught, exitCode>>

\* lines 184-185: except Exception: app.show_errors().  Looking the method
\* up on None raises AttributeError inside the handler; after a call that
\* returns, control falls through to line 187.
ShowErrors ==
    /\ pc = "except"
    /\ IF app = "None"
       THEN /\ Raise("AttributeError")
            /\ UNCHANGED appcalls
       ELSE /\ appcalls' = Append(appcalls, <<"show_errors">>)
            /\ pc' = "identity"
            /\ UNCHANGED <<uncaught, exitCode>>
    /\ UNCHANGED <<args, extra_args, sys_path, info, environ, penv, tracing,
                   app, argv, ctor, i, out>>

\* SetIdentity that also puts the package path in front of sys.path, a
\* configuration write after the application was constructed
SetIdentity_ExtendsPath ==
    /\ pc = "identity"
    /\ app # "None"
    /\ \E qt57 \in BOOLEAN :
          appcalls' = appcalls \o
              << <<"setApplicationName", "openshot">>,
                 <<"setApplicationVersion">> >> \o
              (IF qt57 THEN << <<"setDesktopFile">> >> ELSE << >>)
    /\ sys_path' = <<OPENSHOT_PATH>> \o sys_path
    /\ pc' = "gui"
    /\ UNCHANGED <<args, extra_args, info, environ, penv, tracing, app, argv,
                   ctor, i, out, uncaught, exitCode>>

\* lines 187-194: setApplicationName, setApplicationVersion and, where the
\* Qt version has it (otherwise AttributeError is caught), setDesktopFile
SetIdentity ==
    /\ pc = "identity"
    /\ IF app = "None"
       THEN /\ Raise("AttributeError")
            /\ UNCHANGED appcalls
       ELSE /\ \E qt57 \in BOOLEAN :
                  appcalls' = appcalls \o
                      << <<"setApplicationName", "openshot">>,
                         <<"setApplicationVersion">> >> \o
                      (IF qt57 THEN << <<"setDesktopFile">> >> ELSE << >>)
            /\ pc' = "gui"
            /\ UNCHANGED <<uncaught, exitCode>>
    /\ UNCHANGED <<args, extra_args, sys_path, info, environ, penv, tracing,
                   app, argv, ctor, i, out>>

\* line 197: app.gui()
Gui ==
    /\ pc = "gui"
    /\ appcalls' = Append(appcalls, <<"gui">>)
    /\ pc' = "exec"
    /\ UNCHANGED <<args, extra_args, sys_path, info, environ, penv, tracing,
                   app, argv, ctor, i, out, uncaught, exitCode>>

\* the codes the event loop may return
LoopCodes == -1 .. MaxLoopCode

\* Exec with the loop's code dropped: app.exec_(); sys.exit()
Exec_DropsCode ==
    /\ pc = "exec"
    /\ \E n \in LoopCodes :
          /\ appcalls' = Append(appcalls, <<"exec_", n>>)
          /\ exitCode' = Some(ExitStatus(None))
    /\ pc' = "exit_loop"
    /\ UNCHANGED <<args, extra_args, sys_path, info, environ, penv, tracing,
                   app, argv, ctor, i, out, uncaught>>

\* line 198: sys.exit(app.exec_())
Exec ==
    /\ pc = "exec"
    /\ \E n \in LoopCodes :
          /\ appcalls' = Append(appcalls, <<"exec_", n>>)
          /\ exitCode' = Some(ExitStatus(Some(n)))
    /\ pc' = "exit_loop"
    /\ UNCHANGED <<args, extra_args, sys_path, info, environ, penv, tracing,
                   app, argv, ctor, i, out, uncaught>>

-----------------------------------------------------------------------------
Next ==
    \/ ImportClasses
    \/ InitSentryTracing
    \/ DefineApp
    \/ ParseArgs
    \/ ShowVersion
    \/ SetLogLevels
    \/ ListLanguages
    \/ AddPath
    \/ PathsDone
    \/ ModelTest
    \/ WebBackend
    \/ Language
    \/ BuildArgv
    \/ ConstructApp
    \/ ShowErrors
    \/ SetIdentity
    \/ Gui
    \/ Exec

Spec == Init /\ [][Next]_vars

-----------------------------------------------------------------------------
(* Vocabulary of the properties *)

Range(s) == { s[k] : k \in 1..Len(s) }

\* method m was called on the application object
HasCall(m) == \E k \in 1..Len(appcalls) : appcalls[k][1] = m

\* sys.path as main() finds it: the interpreter's, plus the package path
\* when line 76 ran
StartPaths == { SysPath0, Append(SysPath0, OPENSHOT_PATH) }

\* the run ended without entering main()'s configuration: usage error, help,
\* --version, --list-languages, or an unsupported --lang
EarlyExits == {"exit_usage", "exit_help", "exit_version", "exit_list",
               "exit_badlang"}

\* the command line parsed and asked for the version
VersionRun == args.parsed /\ args.version

-----------------------------------------------------------------------------
(* C1 *)

-----------------------------------------------------------------------------
(* C2 *)

-----------------------------------------------------------------------------
(* C3 *)

\* the constructor was called and raised: app still holds None
ConstructionFailed == ctor # << >> /\ app = "None"

\* C3: when construction of the application raises, show_errors is invoked,
\* that path does not itself raise even with the handle still None, and no
\* exception escapes the bootstrap.
C3_DegradedPathNeverRaises ==
    ConstructionFailed =>
        /\ uncaught = None
        /\ pc # "except" => HasCall("show_errors")

-----------------------------------------------------------------------------
(* C4 *)

\* the terminal state the degraded error path leads to: the error was
\* reported through show_errors and the process ended with an exit code
DegradedErrorExit ==
    pc \in Terminal /\ HasCall("show_errors") /\ uncaught = None

\* C4: the bootstrap is the single-pass machine Start -> ParseArgs ->
\* {EarlyExit | Configure -> {FailExit | Construct -> {DegradedErrorExit |
\* RunLoop -> Exit}}}: a failed construction ends in DegradedErrorExit, and
\* identity setup, gui() and the event loop follow a successful construction
\* only, never the degraded error path.
C4_StateMachine ==
    /\ Len(ctor) <= 1
    /\ (ConstructionFailed /\ pc # "except") => DegradedErrorExit
    /\ (HasCall("setApplicationName") \/ HasCall("gui") \/ HasCall("exec_"))
           => (app = "OpenShotApp" /\ ~HasCall("show_errors"))
    /\ pc \in {"identity", "gui", "exec", "exit_loop"}
           => (app = "OpenShotApp" /\ ~HasCall("show_errors"))

-----------------------------------------------------------------------------
(* C5 *)

\* the command line parsed, asks for neither the version nor the language
\* list, and carries a --lang value outside the supported set (and no --path
\* entry ends main() in the path loop before the language is looked at)
UnsupportedLangRun ==
    /\ args.parsed
    /\ ~args.version /\ ~args.list_languages
    /\ \A k \in 1..Len(args.py_path) :
          resolves(args.py_path[k]) \in {"ok", "TypeError"}
    /\ args.lang # None
    /\ args.lang[1] \notin SUPPORTED_LANGUAGES

\* C5: a run with an unsupported --lang xx (no --version, no
\* --list-languages) exits with code -1, leaves the language override unset,
\* names xx in the diagnostic, and reaches neither the construction of the
\* application nor the event loop.
C5_UnsupportedLangExits ==
    UnsupportedLangRun =>
        /\ info.CMDLINE_LANGUAGE = None
        /\ ctor = << >> /\ ~HasCall("exec_")
        /\ pc \notin {"argv", "construct", "except", "identity", "gui", "exec",
                      "exit_loop", "crash"}
        /\ pc \in Terminal =>
              /\ pc = "exit_badlang"
              /\ exitCode = Some(-1)
              /\ out[Len(out)] = <<"Unsupported language", args.lang[1]>>

-----------------------------------------------------------------------------
(* C6 *)

\* C6 as stated: when the language override is not in the supported set, the
\* process ends before any further side effect: at exit no module search
\* path extension and no process-configuration mutation (log levels,
\* model-test flag, logging-rules variable, web backend) has been applied.
C6_Original ==
    pc = "exit_badlang" =>
        /\ sys_path \in StartPaths
        /\ info = info_defaults
        /\ penv = environ

\* C6 amended: when the process exits because the language override is not
\* in the supported set, it ends before any later side effect: at exit the
\* language override of the process configuration is unset, no argument
\* vector was built, no application was constructed or used and no exception
\* escaped; the module search path extensions and configuration mutations of
\* the steps before validation have, however, already been applied.
C6_NothingAfterValidation ==
    pc = "exit_badlang" =>
        /\ truthy(args.lang) /\ args.lang[1] \notin SUPPORTED_LANGUAGES
        /\ info.CMDLINE_LANGUAGE = None
        /\ argv = << >> /\ ctor = << >> /\ app = "None" /\ appcalls = << >>
        /\ uncaught = None
        /\ out[Len(out)][1] = "Unsupported language"

\* the exit on an unsupported language, with earlier side effects in place
C6_Witness ==
    /\ pc = "exit_badlang"
    /\ info.LOG_LEVEL_FILE = "DEBUG"
    /\ info.MODEL_TEST
    /\ sys_path[1] = "/cwd/A"

-----------------------------------------------------------------------------
(* C7 *)

\* C7: language validation runs after the log levels, the --path loop,
\* --test-models and the web backend: when a run with an unsupported --lang
\* exits with -1, the effects of all of these are in the process state, none
\* rolled back.
C7_EarlierEffectsStay ==
    pc = "exit_badlang" =>
        /\ exitCode = Some(-1)
        /\ info.LOG_LEVEL_FILE =
              (IF args.debug \/ args.debug_file
               THEN "DEBUG" ELSE info_defaults.LOG_LEVEL_FILE)
        /\ info.LOG_LEVEL_CONSOLE =
              (IF args.debug \/ args.debug_console
               THEN "DEBUG" ELSE info_defaults.LOG_LEVEL_CONSOLE)
        /\ \A k \in 1..Len(args.py_path) :
              exists(realpath(args.py_path[k]))
                  => realpath(args.py_path[k]) \in Range(sys_path)
        /\ info.MODEL_TEST = (args.modeltest \/ info_defaults.MODEL_TEST)
        /\ (args.modeltest /\ environ = None)
              => penv = Some("qt.modeltest.debug=true")
        /\ info.WEB_BACKEND = args.web_backend

\* an exit on an unsupported language after every earlier step had an effect
C7_Witness ==
    /\ pc = "exit_badlang"
    /\ args.debug_file /\ ~args.debug /\ ~args.debug_console
    /\ args.py_path = <<"A", "M">>
    /\ args.modeltest /\ environ = None
    /\ args.web_backend = "webkit"

-----------------------------------------------------------------------------
(* C8 *)

\* main() is past the loop of lines 147-157
PathLoopDone ==
    /\ args.parsed
    /\ i > Len(args.py_path)
    /\ pc \in {"modeltest", "backend", "lang", "argv", "construct", "except",
               "identity", "gui", "exec", "exit_badlang", "exit_loop", "crash"}

Reverse(s) == [k \in 1..Len(s) |-> s[Len(s) + 1 - k]]

\* the resolved --path entries that exist, in command-line order
ExistingEntries ==
    LET found == SelectSeq(args.py_path,
                           LAMBDA p : resolves(p) = "ok" /\ exists(realpath(p)))
    IN  [k \in 1..Len(found) |-> realpath(found[k])]

\* C8: after the path loop the module search path is the resolved existing
\* --path entries in reverse command-line order, followed by the search path
\* main() started with, unchanged.
C8_LastPathFirst ==
    PathLoopDone =>
        \E start \in StartPaths : sys_path = Reverse(ExistingEntries) \o start

\* --path A --path B: B comes before A
C8_Witness ==
    /\ pc = "modeltest"
    /\ args.py_path = <<"A", "B">>
    /\ sys_path[1] = "/cwd/B" /\ sys_path[2] = "/cwd/A"

-----------------------------------------------------------------------------
(* C9 *)

\* some --path entry resolves to a location that does not exist
Missing(p) == resolves(p) = "ok" /\ ~exists(realpath(p))

HasMissingPath ==
    /\ args.parsed
    /\ \E k \in 1..Len(args.py_path) : Missing(args.py_path[k])

\* nothing but the path loop stands between this run and the constructor:
\* no --version, no --list-languages, no unsupported language, and no entry
\* whose resolution raises an exception line 155 does not catch
NoEarlyExit ==
    /\ ~args.version /\ ~args.list_languages
    /\ ~(truthy(args.lang) /\ args.lang[1] \notin SUPPORTED_LANGUAGES)
    /\ \A k \in 1..Len(args.py_path) :
          resolves(args.py_path[k]) \in {"ok", "TypeError"}

\* lines printed by the path loop
PathLines ==
    SelectSeq(out, LAMBDA l : l[1] \in {"Added", "does not exist", "Bad path"})

\* C9: a --path entry that resolves to a nonexistent location is not added to
\* the module search path, does not abort the run and does not keep the
\* remaining entries from being processed, and the run goes on to construct
\* the application unless another early exit applies.
C9_MissingPathNonFatal ==
    HasMissingPath =>
        /\ \A k \in 1..Len(args.py_path) :
              Missing(args.py_path[k])
                  => realpath(args.py_path[k]) \notin Range(sys_path)
        /\ pc = "paths" => (uncaught = None /\ Len(PathLines) = i - 1)
        /\ uncaught \notin {Some("FileNotFoundError")}
        /\ PathLoopDone =>
              /\ Len(PathLines) = Len(args.py_path)
              /\ \A k \in 1..Len(args.py_path) :
                    exists(realpath(args.py_path[k]))
                        => realpath(args.py_path[k]) \in Range(sys_path)
        /\ (pc \in Terminal /\ NoEarlyExit) => ctor # << >>

\* --path M --path A: A was still added, and the run reached the event loop
C9_Witness ==
    /\ pc = "exit_loop"
    /\ args.py_path = <<"M", "A">>
    /\ sys_path[1] = "/cwd/A"

-----------------------------------------------------------------------------
(* C10 *)

\* C10: whenever the event loop returns N, the process exit code is N, for
\* every N and every combination of options that reaches the event loop.
C10_LoopCodeIsExitCode ==
    HasCall("exec_") =>
        /\ pc = "exit_loop"
        /\ LET last == appcalls[Len(appcalls)]
           IN  last[1] = "exec_" /\ exitCode = Some(last[2])

\* the loop returned a nonzero code in a run with options set
C10_Witness ==
    /\ pc = "exit_loop"
    /\ appcalls[Len(appcalls)] = <<"exec_", 2>>
    /\ exitCode = Some(2)
    /\ args.debug /\ args.modeltest /\ args.lang = Some("fr")

-----------------------------------------------------------------------------
(* C11 *)

\* main() is past the log level setup of lines 134-138
LogLevelsSet ==
    args.parsed /\ pc \notin {"version", "exit_version", "loglevel"}

\* C11: for every combination of --debug, --debug-file and --debug-console,
\* the file level is verbose iff --debug or --debug-file was given and the
\* console level is verbose iff --debug or --debug-console was given; a
\* level that is not raised keeps its default.  So --debug alone gives the
\* pair --debug-file --debug-console gives, and each single-stream flag
\* leaves the other stream alone.
C11_LogLevels ==
    LogLevelsSet =>
        /\ (info.LOG_LEVEL_FILE = "DEBUG")
              <=> (args.debug \/ args.debug_file)
        /\ (info.LOG_LEVEL_CONSOLE = "DEBUG")
              <=> (args.debug \/ args.debug_console)
        /\ info.LOG_LEVEL_FILE \in {"DEBUG", info_defaults.LOG_LEVEL_FILE}
        /\ info.LOG_LEVEL_CONSOLE \in {"DEBUG", info_defaults.LOG_LEVEL_CONSOLE}
        /\ (args.debug \/ (args.debug_file /\ args.debug_console))
              => (info.LOG_LEVEL_FILE = "DEBUG"
                  /\ info.LOG_LEVEL_CONSOLE = "DEBUG")

\* --debug-file alone: the file level is verbose, the console level is not
C11_Witness ==
    /\ pc = "list"
    /\ args.debug_file /\ ~args.debug /\ ~args.debug_console
    /\ info.LOG_LEVEL_FILE = "DEBUG"
    /\ info.LOG_LEVEL_CONSOLE = info_defaults.LOG_LEVEL_CONSOLE

-----------------------------------------------------------------------------
(* C12 *)

\* the command line parsed and asks for the language list, not the version
ListRun == args.parsed /\ args.list_languages /\ ~args.version

\* C12 as stated: with --list-languages (and no --version) the output is
\* exactly one line per catalog entry and no other line, the exit code is 0,
\* the module search path is not extended, the language is not validated and
\* no application is constructed, whatever --path, --lang or --test-models
\* accompany it.
C12_Original ==
    pc = "exit_list" =>
        /\ Len(out) = Len(get_all_languages)
        /\ exitCode = Some(0)
        /\ sys_path \in StartPaths
        /\ info.CMDLINE_LANGUAGE = None
        /\ ctor = << >>

\* C12 amended: with --list-languages (and no --version) the output is the
\* heading line "Supported Languages:" followed by exactly one line per
\* catalog entry, in catalog order, and nothing else; the exit code is 0, the
\* module search path is not extended, --test-models has no effect, the
\* language is neither validated nor stored, and no application is
\* constructed, whatever --path, --lang or --test-models accompany it.
C12_ListExitsClean ==
    ListRun =>
        /\ pc \in {"version", "loglevel", "list", "exit_list"}
        /\ sys_path \in StartPaths
        /\ info.CMDLINE_LANGUAGE = None
        /\ info.MODEL_TEST = info_defaults.MODEL_TEST /\ penv = environ
        /\ ctor = << >> /\ app = "None" /\ appcalls = << >>
        /\ pc # "exit_list" => out = << >>
        /\ pc = "exit_list" =>
              /\ exitCode = Some(0)
              /\ Len(out) = 1 + Len(get_all_languages)
              /\ out[1] = <<"Supported Languages:">>
              /\ \A k \in 1..Len(get_all_languages) :
                    out[k + 1] = <<"language", get_all_languages[k][1],
                                   get_all_languages[k][2]>>

\* the list was printed in a run that also carried --path, an unsupported
\* --lang and --test-models
C12_Witness ==
    /\ pc = "exit_list"
    /\ args.py_path = <<"A", "B">>
    /\ args.lang = Some("xx")
    /\ args.modeltest

-----------------------------------------------------------------------------
(* C13 *)

-----------------------------------------------------------------------------
(* C14 *)

\* the entries of a --path list up to, not including, the first whose
\* resolution raises an exception line 155 does not catch
RECURSIVE BeforeFailure(_)
BeforeFailure(ps) ==
    IF ps = << >> \/ resolves(Head(ps)) \notin {"ok", "TypeError"}
    THEN << >>
    ELSE <<Head(ps)>> \o BeforeFailure(Tail(ps))

\* how far main() gets on parsed arguments a, by the arguments alone:
\* "version", "list", "paths" (ended inside the path loop), "badlang", or
\* "construct" (the constructor is called)
Reach(a) ==
    IF a.version THEN "version"
    ELSE IF a.list_languages THEN "list"
    ELSE IF BeforeFailure(a.py_path) # a.py_path THEN "paths"
    ELSE IF a.lang # None /\ a.lang[1] # ""
            /\ a.lang[1] \notin SUPPORTED_LANGUAGES THEN "badlang"
    ELSE "construct"

\* classes.info at the end of a run on parsed arguments a
FinalInfo(a) ==
    LET r == Reach(a)
        configured == r \in {"badlang", "construct"}
    IN  [LOG_LEVEL_FILE |->
            IF r # "version" /\ (a.debug \/ a.debug_file)
            THEN "DEBUG" ELSE info_defaults.LOG_LEVEL_FILE,
         LOG_LEVEL_CONSOLE |->
            IF r # "version" /\ (a.debug \/ a.debug_console)
            THEN "DEBUG" ELSE info_defaults.LOG_LEVEL_CONSOLE,
         MODEL_TEST |->
            IF configured /\ a.modeltest
            THEN TRUE ELSE info_defaults.MODEL_TEST,
         WEB_BACKEND |->
            IF configured THEN a.web_backend ELSE info_defaults.WEB_BACKEND,
         CMDLINE_LANGUAGE |->
            IF r = "construct" /\ a.lang # None /\ a.lang[1] # ""
            THEN a.lang ELSE info_defaults.CMDLINE_LANGUAGE]

\* what main() put in front of sys.path by the end of a run on a
FinalPathFront(a) ==
    IF Reach(a) \in {"version", "list"} THEN << >>
    ELSE LET found == SelectSeq(BeforeFailure(a.py_path),
                         LAMBDA p : resolves(p) = "ok" /\ exists(realpath(p)))
         IN  [k \in 1..Len(found) |-> realpath(found[Len(found) + 1 - k])]

\* QT_LOGGING_RULES of the process at the end of a run on a
FinalEnv(a) ==
    IF Reach(a) \in {"badlang", "construct"} /\ a.modeltest /\ environ = None
    THEN Some("qt.modeltest.debug=true") ELSE environ

\* C14: determinism.  The state a run ends in is a function of its inputs:
\* once a run has ended, where it ended, the process configuration (log
\* levels, model-test flag, web backend, language override, module search
\* path, logging-rules variable) and the exit code are given by the parsed
\* arguments, the initial process state (start-up search path, environment,
\* file system answers, supported languages) and, past construction, the
\* collaborators' answers (constructor outcome, the loop's return code).  Two
\* runs from identical initial state with identical arguments therefore end
\* in the same terminal state with identical configuration and exit code.
C14_Deterministic ==
    /\ pc \in {"exit_usage", "exit_help"} =>
          /\ ~args.parsed
          /\ info = info_defaults /\ sys_path \in StartPaths /\ penv = environ
          /\ exitCode = Some(IF pc = "exit_usage" THEN 2 ELSE 0)
    /\ (pc \in Terminal /\ args.parsed) =>
          /\ pc = CASE Reach(args) = "version" -> "exit_version"
                    [] Reach(args) = "list" -> "exit_list"
                    [] Reach(args) = "paths" -> "crash"
                    [] Reach(args) = "badlang" -> "exit_badlang"
                    [] Reach(args) = "construct" ->
                          IF app = "None" THEN "crash" ELSE "exit_loop"
          /\ (ctor # << >>) <=> (Reach(args) = "construct")
          /\ info = FinalInfo(args)
          /\ \E start \in StartPaths : sys_path = FinalPathFront(args) \o start
          /\ penv = FinalEnv(args)
          /\ exitCode = Some(CASE pc \in {"exit_version", "exit_list"} -> 0
                               [] pc = "exit_badlang" -> -1
                               [] pc = "crash" -> 1
                               [] pc = "exit_loop" ->
                                     appcalls[Len(appcalls)][2])

\* a run that went through every configuration step has ended
C14_Witness ==
    /\ pc = "exit_loop"
    /\ args.debug_console /\ args.modeltest /\ environ = None
    /\ args.py_path = <<"B", "L">>
    /\ args.web_backend = "webengine"
    /\ args.lang = Some("fr")
    /\ info = [LOG_LEVEL_FILE |-> "INFO", LOG_LEVEL_CONSOLE |-> "DEBUG",
               MODEL_TEST |-> TRUE, WEB_BACKEND |-> "webengine",
               CMDLINE_LANGUAGE |-> Some("fr")]

-----------------------------------------------------------------------------
(* C15 *)

\* C15 as stated: the constructor's argument vector is the program name,
\* then the passthrough arguments (the trailing remainder the parser
\* captured, args.remain), then the unrecognized arguments (extra_args),
\* each group in its own order.
C15_Original ==
    ctor # << >> =>
        LET v == ctor[1]
            np == Len(args.remain)
        IN  /\ Len(v) = 1 + np + Len(extra_args)
            /\ v[1] = Argv0
            /\ \A k \in 1..np : v[1 + k] = args.remain[k]
            /\ \A k \in 1..Len(extra_args) : v[1 + np + k] = extra_args[k]

\* C15 amended: the constructor's argument vector is the program name, then
\* the unrecognized arguments (extra_args), then the passthrough arguments
\* (args.remain), each group in its own order.
C15_ArgvOrder ==
    ctor # << >> =>
        LET v == ctor[1]
            nu == Len(extra_args)
        IN  /\ Len(ctor) = 1
            /\ Len(v) = 1 + nu + Len(args.remain)
            /\ v[1] = Argv0
            /\ \A k \in 1..nu : v[1 + k] = extra_args[k]
            /\ \A k \in 1..Len(args.remain) : v[1 + nu + k] = args.remain[k]

\* the constructor was called with two unrecognized tokens and two files
C15_Witness ==
    /\ ctor = << <<"launch.py", "-style", "fusion", "a.osp", "b.osp">> >>
    /\ extra_args = <<"-style", "fusion">>
    /\ args.remain = <<"a.osp", "b.osp">>

-----------------------------------------------------------------------------
(* C16 *)

\* some --path entry's resolution raises an exception
HasFailingPath ==
    /\ args.parsed
    /\ \E k \in 1..Len(args.py_path) : resolves(args.py_path[k]) # "ok"

\* C16: when the resolution of a --path entry itself throws, the error is
\* reported and the loop goes on with the next entry: no kind of resolution
\* failure aborts the bootstrap, the failing entry is not added to the module
\* search path, and every later entry is still processed.
C16_ResolutionFailureNonFatal ==
    HasFailingPath =>
        /\ uncaught \notin {Some("TypeError"), Some("OSError")}
        /\ pc = "crash" => ctor # << >>
        /\ pc = "paths" => Len(PathLines) = i - 1
        /\ \A k \in 1..Len(args.py_path) :
              resolves(args.py_path[k]) # "ok"
                  => realpath(args.py_path[k]) \notin Range(sys_path)
        /\ (pc \in Terminal /\ ~args.version /\ ~args.list_languages) =>
              /\ Len(PathLines) = Len(args.py_path)
              /\ \A k \in 1..Len(args.py_path) :
                    (resolves(args.py_path[k]) = "ok"
                     /\ exists(realpath(args.py_path[k])))
                        => realpath(args.py_path[k]) \in Range(sys_path)

-----------------------------------------------------------------------------
(* C17 *)

\* main() is past lines 159-163
ModelTestDone == PathLoopDone /\ pc # "modeltest"

\* C17: with --test-models the model-test flag is set and QT_LOGGING_RULES
\* gets the default value only if it was unset, a value already set is never
\* overwritten; without --test-models neither the flag nor the variable is
\* changed.
C17_ModelTestEnv ==
    /\ environ # None => penv = environ
    /\ ~ModelTestDone =>
          (info.MODEL_TEST = info_defaults.MODEL_TEST /\ penv = environ)
    /\ (ModelTestDone /\ ~args.modeltest) =>
          (info.MODEL_TEST = info_defaults.MODEL_TEST /\ penv = environ)
    /\ (ModelTestDone /\ args.modeltest) =>
          /\ info.MODEL_TEST = TRUE
          /\ environ = None => penv = Some("qt.modeltest.debug=true")

\* --test-models with QT_LOGGING_RULES set by the user: the value stays
C17_Witness ==
    /\ pc = "backend"
    /\ args.modeltest /\ info.MODEL_TEST
    /\ environ = Some("user.rules") /\ penv = Some("user.rules")

-----------------------------------------------------------------------------
(* C18 *)

\* main() is at the constructor call of line 183 or past it
FromConstruction ==
    pc \in {"construct", "except", "identity", "gui", "exec", "exit_loop"}
    \/ ctor # << >>

\* C18: every write to the process-wide configuration (log levels, model-test
\* flag, web backend, language override, module search path) happens before
\* the application object is constructed: from the start of construction
\* through the event loop to the exit, no step of the bootstrap changes any
\* of them.
C18_ConfigFrozen ==
    [][FromConstruction =>
          (info' = info /\ sys_path' = sys_path /\ penv' = penv)]_vars

\* a run that wrote the configuration, then constructed the application and
\* ran the event loop
C18_Witness ==
    /\ pc = "exit_loop"
    /\ info.LOG_LEVEL_FILE = "DEBUG" /\ info.MODEL_TEST
    /\ info.WEB_BACKEND = "webkit" /\ info.CMDLINE_LANGUAGE = Some("fr")
    /\ sys_path[1] = "/cwd/B"

-----------------------------------------------------------------------------
(* C19 *)

\* C19: in every reachable state the language override of the process
\* configuration is unset or a member of the supported set; it is set only
\* where validation succeeded; and an application is constructed with a
\* --lang argument only when that argument is supported.
C19_LanguageInvariant ==
    /\ info.CMDLINE_LANGUAGE # None =>
          /\ info.CMDLINE_LANGUAGE[1] \in SUPPORTED_LANGUAGES
          /\ args.parsed /\ args.lang = info.CMDLINE_LANGUAGE
          /\ pc \in {"argv", "construct", "except", "identity", "gui", "exec",
                     "exit_loop", "crash"}
    /\ (ctor # << >> /\ args.lang # None) =>
          args.lang[1] \in SUPPORTED_LANGUAGES

====
